---- MODULE Spec2Model ----
(***************************************************************************)
(* A model of extract.py, the decoder of the "MUS" music container:        *)
(* the byte cursor (VirtualFile), the sample table decoder                 *)
(* (get_sample_data), the sequence order decoder (get_seq_data), the note  *)
(* matrix decoder (get_note_info), the note semantics (NoteInfo) and the   *)
(* MIDI track builder (generate_midi_tracks).                              *)
(*                                                                         *)
(* Bytes are integers 0..255, byte strings are sequences of bytes.  A      *)
(* Python object is a record of its attributes.  A call that raises is     *)
(* modelled by the value Raised(kind) in place of its result.              *)
(***************************************************************************)
EXTENDS Integers, Sequences, FiniteSets, TLC

VARIABLES
    \* --- the byte cursor on its own (SpecCursor)
    cur,            \* a VirtualFile
    cur_op,         \* the last call made on it: name, argument, position before,
                    \* and whether it returned (rather than raised)
    cur_ret,        \* the bytes that call returned
    \* --- NoteInfo on its own (SpecNote)
    note_bytes,     \* the 6-byte record handed to NoteInfo
    note_samples,   \* the 31-slot sample table handed to NoteInfo
    note_obj,       \* the NoteInfo built from them, or Raised(..), or Pending
    \* --- process_mus_file (Spec)
    pc,             \* where process_mus_file stands
    exc,            \* the exception that ended it, or None
    VF,             \* the cursor over the whole file
    samples,        \* result of get_sample_data (empty until it returns)
    VF_seq,         \* get_seq_data: the cursor over the sequence region
    sequences,      \* get_seq_data: the list being built
    found_zero,     \* get_seq_data: the seen-a-zero flag
    seq_ret,        \* get_seq_data: its return value, or Pending
    notes_file,     \* get_note_info: the cursor over the note matrix
    nloop,          \* get_note_info: the loop counters i, step, channel and num_seqs
    seq_info,       \* get_note_info: the sequence being filled
    note_seqs,      \* get_note_info: the list "sequences" of finished seq_info
    \* --- generate_midi_tracks (SpecMidi)
    m_seq_info,     \* its argument seq_info
    m_order,        \* its argument order
    m_pc,           \* "run", "done" or "raised"
    m_loop,         \* loop counters: position in order, c_num, n_index
    m_time,         \* the local "time"
    m_d_iter,       \* the local "d_iter" (Unbound until first assigned)
    m_events        \* the calls made on the MIDIFile, in order

cursorVars == <<cur, cur_op, cur_ret>>
noteVars   == <<note_bytes, note_samples, note_obj>>
pipeVars   == <<pc, exc, VF, samples, VF_seq, sequences, found_zero, seq_ret,
                notes_file, nloop, seq_info, note_seqs>>
midiVars   == <<m_seq_info, m_order, m_pc, m_loop, m_time, m_d_iter, m_events>>
vars       == <<cursorVars, noteVars, pipeVars, midiVars>>

-----------------------------------------------------------------------------
(* Python values *)

None == [tag |-> "None"]
Raised(kind) == [tag |-> "Raised", kind |-> kind]
IsRaised(v) == v.tag = "Raised"
\* the exception r as it leaves the decoder named where
RaisedIn(where, r) == [tag |-> "Raised", kind |-> r.kind, where |-> where]
Pending == [tag |-> "Pending"]

Min(a, b) == IF a < b THEN a ELSE b

\* s[a:b] for a, b >= 0: clamped to the sequence, empty when nothing is left
Slice(s, a, b) ==
    LET lo == Min(a, Len(s))
        hi == Min(b, Len(s))
    IN  IF hi <= lo THEN <<>> ELSE SubSeq(s, lo + 1, hi)

\* a variant of unpack_I that reads a short buffer as if zero-padded
unpack_I_padded(b) ==
    LET at(k) == IF k <= Len(b) THEN b[k] ELSE 0
    IN  [tag |-> "Int", val |-> at(1) + 256 * at(2) + 65536 * at(3) + 16777216 * at(4)]

\* struct.unpack("<I", b)[0]: a little-endian uint32; struct.error unless len(b) = 4
unpack_I(b) ==
    IF Len(b) # 4 THEN Raised("struct.error")
    ELSE [tag |-> "Int", val |-> b[1] + 256 * b[2] + 65536 * b[3] + 16777216 * b[4]]

\* the inverse layout, used to build input files
pack_I(v) == << v % 256, (v \div 256) % 256, (v \div 65536) % 256, (v \div 16777216) % 256 >>
pack_H(v) == << v % 256, (v \div 256) % 256 >>

Repeat(x, n) == [k \in 1..n |-> x]

\* the items of ss, each w long, one after the other
Flatten(ss, w) == [k \in 1..(Len(ss) * w) |-> ss[((k - 1) \div w) + 1][((k - 1) % w) + 1]]

-----------------------------------------------------------------------------
(* class VirtualFile *)

VirtualFile(d) == [data |-> d, pos |-> 0, size |-> Len(d)]

\* read: the position moves by num whatever is left; the slice is what Python gives
read(vf, num) ==
    [vf  |-> [vf EXCEPT !.pos = vf.pos + num],
     ret |-> Slice(vf.data, (vf.pos + num) - num, vf.pos + num)]

peak(vf, num) == Slice(vf.data, vf.pos, vf.pos + num)

-----------------------------------------------------------------------------
(* The byte cursor on its own: any sequence of read and peak calls *)

MaxLen == 3      \* longest buffer
MaxNum == 3      \* largest argument of read and peak
MaxPos == 6      \* the position is not driven past this
CursorBytes == {65, 66}

RECURSIVE SeqsUpTo(_, _)
SeqsUpTo(S, n) ==
    IF n = 0 THEN {<<>>}
    ELSE LET shorter == SeqsUpTo(S, n - 1)
         IN  shorter \cup {Append(s, x) : s \in {t \in shorter : Len(t) = n - 1}, x \in S}

CursorInit ==
    /\ cur \in {VirtualFile(d) : d \in SeqsUpTo(CursorBytes, MaxLen)}
    /\ cur_op = [op |-> "new", num |-> 0, before |-> 0, returned |-> FALSE]
    /\ cur_ret = <<>>

CursorIdle ==
    /\ cur = VirtualFile(<<>>)
    /\ cur_op = [op |-> "new", num |-> 0, before |-> 0, returned |-> FALSE]
    /\ cur_ret = <<>>

CursorRead ==
    \E num \in 0..MaxNum :
        /\ cur.pos + num <= MaxPos
        /\ cur' = read(cur, num).vf
        /\ cur_ret' = read(cur, num).ret
        /\ cur_op' = [op |-> "read", num |-> num, before |-> cur.pos, returned |-> TRUE]
        /\ UNCHANGED <<noteVars, pipeVars, midiVars>>

CursorPeak ==
    \E num \in 0..MaxNum :
        /\ cur' = cur
        /\ cur_ret' = peak(cur, num)
        /\ cur_op' = [op |-> "peak", num |-> num, before |-> cur.pos, returned |-> TRUE]
        /\ UNCHANGED <<noteVars, pipeVars, midiVars>>

-----------------------------------------------------------------------------
(* Note semantics: calculate_volume, calculate_note, Sample, NoteInfo *)

NOTE_SCALE == <<"C", "C#", "D", "D#", "E", "F", "F#", "G", "G#", "A", "A#", "B">>

\* EMPTY_NOTE is the string '--' in the source; here a number no sample index takes
EMPTY_NOTE == -1

calculate_volume(byte) == IF byte = 0 THEN 0 ELSE (byte - 1) * 2

\* 'None' for 255, else the note name followed by the octave
calculate_note(notes) ==
    IF notes = 255 THEN <<"None">>
    ELSE LET notes_from_c == notes \div 8
             scale_num == notes_from_c \div Len(NOTE_SCALE)
         IN  <<NOTE_SCALE[(notes_from_c % Len(NOTE_SCALE)) + 1], scale_num>>

Sample(sname, ssize, volume, sloops, sloope, snume) ==
    [tag |-> "Sample", sname |-> sname, ssize |-> ssize,
     volume |-> calculate_volume(volume),
     sloops |-> sloops, sloope |-> sloope, snume |-> snume,
     type |-> IF sloops # 0 THEN 1 ELSE 2]

\* bytes[0] + bytes[1]*16 if bytes[0] != 0 else EMPTY_NOTE   (bytes[k] is b[k+1])
sample_num_of(b) == IF b[1] # 0 THEN b[1] + (b[2] * 16) ELSE EMPTY_NOTE

\* NoteInfo.__init__; samples[self.sample_num-1] raises IndexError past the table
NoteInfo(b, smps) ==
    LET sample_num == sample_num_of(b)
    IN  IF sample_num # EMPTY_NOTE /\ sample_num - 1 >= Len(smps)
        THEN Raised("IndexError")
        ELSE
        LET hit == sample_num # EMPTY_NOTE /\ smps[sample_num] # None
            sample_used == IF hit THEN smps[sample_num] ELSE None
            start_volume == IF hit THEN sample_used.volume ELSE 0
            second_byte == Slice(b, 2, 4)
            third_byte == Slice(b, 4, Len(b))
            retrigger == (second_byte[2] = 1)
            note_played_raw == (second_byte[1] \div 8) + 12
            volume == IF b[5] = 12 THEN calculate_volume(b[6])
                      ELSE IF sample_num # EMPTY_NOTE \/ retrigger THEN start_volume
                      ELSE 0
        IN  [tag |-> "NoteInfo",
             start_volume |-> start_volume,
             sample_used |-> sample_used,
             volume |-> volume,
             sample_num |-> sample_num,
             second_byte |-> second_byte,
             note_played |-> calculate_note(second_byte[1]),
             retrigger |-> retrigger,
             note_played_raw |-> note_played_raw,
             note_played_midi |-> note_played_raw + 12,
             third_byte |-> third_byte]

-----------------------------------------------------------------------------
(* NoteInfo on its own: one 6-byte record decoded against one sample table *)

NUM_SAMPLES == 31

\* "a.pcm" as code points
PcmName == <<97, 46, 112, 99, 109>>

\* raw values of a sample record's volume field
RawVolumes == {0, 1, 64, 65}

\* 31-slot tables: slot 1 and slot 16 hold a sample or nothing, the rest nothing
TableWith(v1, v16) ==
    [i \in 1..NUM_SAMPLES |->
        IF i = 1 /\ v1 >= 0 THEN Sample(PcmName, 100, v1, 0, 0, 1)
        ELSE IF i = 16 /\ v16 >= 0 THEN Sample(PcmName, 160, v16, 8, 16, 16)
        ELSE None]

NoteTables == {TableWith(v1, v16) : v1 \in RawVolumes \cup {-1}, v16 \in {-1, 30}}

\* the values each byte of the record is drawn from
NoteByteChoices ==
    << {0, 1, 2, 16, 31, 32}, {0, 1, 2}, {0, 96, 255}, {0, 1}, {0, 12, 15}, {0, 1, 64, 65, 255} >>

NoteRecords ==
    {<<b0, b1, b2, b3, b4, b5>> :
        b0 \in NoteByteChoices[1], b1 \in NoteByteChoices[2], b2 \in NoteByteChoices[3],
        b3 \in NoteByteChoices[4], b4 \in NoteByteChoices[5], b5 \in NoteByteChoices[6]}

NoteInit ==
    /\ note_bytes \in NoteRecords
    /\ note_samples \in NoteTables
    /\ note_obj = Pending

NoteIdle ==
    /\ note_bytes = <<0, 0, 0, 0, 0, 0>>
    /\ note_samples = TableWith(-1, -1)
    /\ note_obj = Pending

DecodeNote ==
    /\ note_obj = Pending
    /\ note_obj' = NoteInfo(note_bytes, note_samples)
    /\ UNCHANGED <<note_bytes, note_samples, cursorVars, pipeVars, midiVars>>

-----------------------------------------------------------------------------
(* Layout constants *)

TITLE_SKIP == 20            \* VF_sample_info.read(0x14)
HEADER_BYTES == 1384        \* 0x568
SEQ_INFO_BYTES == 524       \* 0x20C
SAMPLE_STRUCT_SIZE == 44    \* 0x2c
NAME_BYTES == 22            \* the 22s of "<22sHIIIII"
NOTE_BYTES == 6             \* notes_file.read(6)
STEPS == 64                 \* for _ in range(64)

-----------------------------------------------------------------------------
(* bytes.decode('utf8'), strict: the code points, or UnicodeDecodeError *)

IsCont(x) == x >= 128 /\ x <= 191

RECURSIVE utf8_from(_, _, _)
utf8_from(b, i, acc) ==
    IF i > Len(b) THEN [tag |-> "Str", chars |-> acc]
    ELSE
    LET b1 == b[i]
        at(k) == IF i + k <= Len(b) THEN b[i + k] ELSE -1
        lo2 == IF b1 = 224 THEN 160 ELSE IF b1 = 240 THEN 144 ELSE 128
        hi2 == IF b1 = 237 THEN 159 ELSE IF b1 = 244 THEN 143 ELSE 191
    IN  IF b1 < 128 THEN utf8_from(b, i + 1, Append(acc, b1))
        ELSE IF b1 >= 194 /\ b1 <= 223 /\ IsCont(at(1))
        THEN utf8_from(b, i + 2, Append(acc, (b1 - 192) * 64 + (at(1) - 128)))
        ELSE IF b1 >= 224 /\ b1 <= 239 /\ at(1) >= lo2 /\ at(1) <= hi2 /\ IsCont(at(2))
        THEN utf8_from(b, i + 3,
                 Append(acc, (b1 - 224) * 4096 + (at(1) - 128) * 64 + (at(2) - 128)))
        ELSE IF b1 >= 240 /\ b1 <= 244 /\ at(1) >= lo2 /\ at(1) <= hi2
                /\ IsCont(at(2)) /\ IsCont(at(3))
        THEN utf8_from(b, i + 4,
                 Append(acc, (b1 - 240) * 262144 + (at(1) - 128) * 4096
                             + (at(2) - 128) * 64 + (at(3) - 128)))
        ELSE Raised("UnicodeDecodeError")

decode_utf8(b) == utf8_from(b, 1, <<>>)

\* sub in s, for strings as sequences of code points
Contains(s, sub) ==
    \E i \in 1..(Len(s) - Len(sub) + 1) : SubSeq(s, i, i + Len(sub) - 1) = sub

\* ".pcm"
PCM_MARK == <<46, 112, 99, 109>>

\* s.replace('\x00', '')
remove_trailing_zeros_from_str(s) == SelectSeq(s, LAMBDA c : c # 0)

\* SAMPLE_STRUCT.unpack: "<22sHIIIII", struct.error unless exactly 0x2c bytes
field_I(b, off) == unpack_I(Slice(b, off, off + 4)).val
SAMPLE_STRUCT_unpack(b) ==
    IF Len(b) # SAMPLE_STRUCT_SIZE THEN Raised("struct.error")
    ELSE [tag |-> "Struct",
          sample_name |-> Slice(b, 0, NAME_BYTES),
          idk_yet |-> b[NAME_BYTES + 1] + 256 * b[NAME_BYTES + 2],
          sample_size |-> field_I(b, NAME_BYTES + 2),
          sample_iden |-> field_I(b, NAME_BYTES + 6),
          sample_loop_start |-> field_I(b, NAME_BYTES + 10),
          sample_loop_end |-> field_I(b, NAME_BYTES + 14),
          reserved |-> field_I(b, NAME_BYTES + 18)]

\* the body of "for i in range(31)" from slot i on: the cursor and the table
\* after the loop, or the exception that ends it
RECURSIVE sample_loop(_, _, _)
sample_loop(vf, i, smps) ==
    IF i >= NUM_SAMPLES THEN [tag |-> "Samples", samples |-> smps, vf |-> vf]
    ELSE
    LET r == read(vf, SAMPLE_STRUCT_SIZE)
        st == SAMPLE_STRUCT_unpack(r.ret)
    IN  IF IsRaised(st) THEN st
        ELSE
        LET dec == decode_utf8(st.sample_name)
        IN  IF IsRaised(dec) THEN dec
            ELSE IF ~Contains(dec.chars, PCM_MARK)
            THEN sample_loop(r.vf, i + 1, smps)
            ELSE sample_loop(r.vf, i + 1,
                     [smps EXCEPT ![i + 1] =
                         Sample(remove_trailing_zeros_from_str(dec.chars), st.sample_size,
                                st.sample_iden, st.sample_loop_start, st.sample_loop_end,
                                i + 1)])

\* get_sample_data applied to the bytes vfile.read(HEADER_BYTES) returned
get_sample_data(header) ==
    sample_loop(read(VirtualFile(header), TITLE_SKIP).vf, 0,
                [i \in 1..NUM_SAMPLES |-> None])

-----------------------------------------------------------------------------
(* Input files *)

\* the 22-byte name field of a sample record, by kind
NameField(kind) ==
    LET text == CASE kind = "pcm"   -> <<97, 46, 112, 99, 109>>            \* a.pcm
                  [] kind = "other" -> <<97, 46, 119, 97, 118>>            \* a.wav
                  [] kind = "utf8"  -> <<195, 169, 46, 112, 99, 109>>      \* e-acute .pcm
                  [] kind = "bad"   -> <<255, 46, 112, 99, 109>>           \* not UTF-8
                  [] OTHER          -> <<>>
    IN  text \o Repeat(0, NAME_BYTES - Len(text))

\* the fields written into the record of slot i
FieldSize(i) == 1000 + i
FieldVolume(i) == (i * 5) % 70
FieldLoopStart(i) == IF i % 2 = 0 THEN 16 ELSE 0
FieldLoopEnd(i) == 32 + i

SampleRecord(kind, i) ==
    NameField(kind) \o pack_H(i) \o pack_I(FieldSize(i)) \o pack_I(FieldVolume(i))
        \o pack_I(FieldLoopStart(i)) \o pack_I(FieldLoopEnd(i)) \o pack_I(0)

\* slots 1 and 16 hold a sample, slots 2 and 31 are of the given kinds
SlotKind(i, k2, k31) ==
    IF i = 1 \/ i = 16 THEN "pcm" ELSE IF i = 2 THEN k2 ELSE IF i = 31 THEN k31 ELSE "empty"

Header(k2, k31) ==
    Repeat(0, TITLE_SKIP)
        \o Flatten([i \in 1..NUM_SAMPLES |-> SampleRecord(SlotKind(i, k2, k31), i)],
                   SAMPLE_STRUCT_SIZE)

\* the sequence region: the given words, then the filler word to the end
SeqRegion(prefix, filler) ==
    Flatten([k \in 1..(SEQ_INFO_BYTES \div 4) |->
                pack_I(IF k <= Len(prefix) THEN prefix[k] ELSE filler)], 4)

\* byte k (from 0) of the note matrix: every record differs from its neighbours;
\* with bad set, record 5 names sample 33
NoteByteAt(k, bad) ==
    LET r == k \div NOTE_BYTES
        j == k % NOTE_BYTES
    IN  CASE j = 0 -> IF bad /\ r = 5 THEN 1 ELSE IF r % 7 = 3 THEN 16 ELSE r % 3
          [] j = 1 -> IF bad /\ r = 5 THEN 2 ELSE 0
          [] j = 2 -> IF r % 4 = 1 THEN 255 ELSE (r * 8) % 248
          [] j = 3 -> IF r % 5 = 2 THEN 1 ELSE 0
          [] j = 4 -> IF r % 3 = 1 THEN 12 ELSE 0
          [] OTHER -> r % 100

NoteMatrix(n, bad) == [k \in 1..n |-> NoteByteAt(k - 1, bad)]

-----------------------------------------------------------------------------
(* process_mus_file: get_sample_data, get_seq_data, get_note_info in turn on  *)
(* the one cursor VF.  pc is "samples", "seq", "seqloop", "seqend", "notes",  *)
(* "noteloop", "done", or "raised" once an exception has ended the run.       *)

NoLoop == [i |-> 0, step |-> 0, channel |-> 0, num_seqs |-> 0]

\* the locals of the three decoders before they run
PipeLocalsInit ==
    /\ exc = None
    /\ samples = <<>>
    /\ VF_seq = VirtualFile(<<>>)
    /\ sequences = <<>>
    /\ found_zero = FALSE
    /\ seq_ret = Pending
    /\ notes_file = VirtualFile(<<>>)
    /\ nloop = NoLoop
    /\ seq_info = <<>>
    /\ note_seqs = <<>>

PipeIdle ==
    /\ pc = "idle"
    /\ VF = VirtualFile(<<>>)
    /\ PipeLocalsInit

\* samples = get_sample_data(VF)
GetSampleData ==
    /\ pc = "samples"
    /\ LET r == read(VF, HEADER_BYTES)
           out == get_sample_data(r.ret)
       IN  /\ VF' = r.vf
           /\ IF IsRaised(out)
              THEN /\ exc' = RaisedIn("get_sample_data", out)
                   /\ pc' = "raised"
                   /\ UNCHANGED samples
              ELSE /\ samples' = out.samples
                   /\ pc' = "seq"
                   /\ UNCHANGED exc
    /\ UNCHANGED <<VF_seq, sequences, found_zero, seq_ret, notes_file, nloop,
                   seq_info, note_seqs, cursorVars, noteVars, midiVars>>

\* get_seq_data, up to the loop: VF_seq = VirtualFile(vfile.read(SEQ_INFO_BYTES))
GetSeqStart ==
    /\ pc = "seq"
    /\ LET r == read(VF, SEQ_INFO_BYTES)
       IN  /\ VF' = r.vf
           /\ VF_seq' = VirtualFile(r.ret)
    /\ sequences' = <<>>
    /\ found_zero' = FALSE
    /\ pc' = "seqloop"
    /\ UNCHANGED <<exc, samples, seq_ret, notes_file, nloop, seq_info, note_seqs,
                   cursorVars, noteVars, midiVars>>

\* a variant of seq_step that leaves the loop at the first zero
seq_step_first_zero(seqs, fz, next_byte) ==
    IF next_byte = 0
    THEN [sequences |-> seqs, found_zero |-> TRUE, brk |-> TRUE]
    ELSE [sequences |-> Append(seqs, next_byte), found_zero |-> fz, brk |-> FALSE]

\* the body of "while True" for one value: what becomes of the list and the
\* flag, and whether the loop is left
seq_step(seqs, fz, next_byte) ==
    IF next_byte = 0
    THEN IF fz THEN [sequences |-> seqs, found_zero |-> fz, brk |-> TRUE]
         ELSE [sequences |-> Append(seqs, 0), found_zero |-> TRUE, brk |-> FALSE]
    ELSE [sequences |-> Append(seqs, next_byte), found_zero |-> fz, brk |-> FALSE]

\* one turn of the loop of get_seq_data
SeqLoopStep ==
    /\ pc = "seqloop"
    /\ LET r == read(VF_seq, 4)
           u == unpack_I(r.ret)
       IN  /\ VF_seq' = r.vf
           /\ IF IsRaised(u)
              THEN /\ pc' = "raised"
                   /\ exc' = RaisedIn("get_seq_data", u)
                   /\ UNCHANGED <<sequences, found_zero>>
              ELSE LET st == seq_step(sequences, found_zero, u.val)
                   IN  /\ sequences' = st.sequences
                       /\ found_zero' = st.found_zero
                       /\ pc' = IF st.brk THEN "seqend" ELSE "seqloop"
                       /\ UNCHANGED exc
    /\ UNCHANGED <<VF, samples, seq_ret, notes_file, nloop, seq_info, note_seqs,
                   cursorVars, noteVars, midiVars>>

\* num_channels = sequences[0]; num_sequences = sequences[1]; sequences[2:]
seq_result(seqs) ==
    IF Len(seqs) < 2 THEN Raised("IndexError")
    ELSE [tag |-> "SeqData", num_channels |-> seqs[1], sequences |-> Slice(seqs, 2, Len(seqs)),
          num_sequences |-> seqs[2]]

\* the return of get_seq_data
SeqReturn ==
    /\ pc = "seqend"
    /\ IF IsRaised(seq_result(sequences))
       THEN /\ pc' = "raised"
            /\ exc' = RaisedIn("get_seq_data", seq_result(sequences))
            /\ UNCHANGED seq_ret
       ELSE /\ pc' = "notes"
            /\ seq_ret' = seq_result(sequences)
            /\ UNCHANGED exc
    /\ UNCHANGED <<VF, samples, VF_seq, sequences, found_zero, notes_file, nloop,
                   seq_info, note_seqs, cursorVars, noteVars, midiVars>>

\* int(a / b) for b > 0: the quotient cut towards zero
TruncDiv(a, b) == IF a >= 0 THEN a \div b ELSE -((-a) \div b)

\* [None] * num_channels; a channel's None stands as the empty list, which the
\* first note replaces by [note_obj]
EmptySeqInfo(num_channels) == [c \in 1..num_channels |-> <<>>]

\* get_note_info, up to the loops
GetNoteInfoStart ==
    /\ pc = "notes"
    /\ LET data_size == VF.size - SEQ_INFO_BYTES - HEADER_BYTES
           r == read(VF, data_size)
           section_size == NOTE_BYTES * seq_ret.num_channels * STEPS
       IN  /\ VF' = r.vf
           /\ notes_file' = VirtualFile(r.ret)
           /\ IF section_size = 0
              THEN /\ pc' = "raised"
                   /\ exc' = RaisedIn("get_note_info", Raised("ZeroDivisionError"))
                   /\ UNCHANGED <<nloop, seq_info, note_seqs>>
              ELSE /\ pc' = "noteloop"
                   /\ UNCHANGED exc
                   /\ nloop' = [i |-> 0, step |-> 0, channel |-> 0,
                                num_seqs |-> TruncDiv(data_size, section_size)]
                   /\ seq_info' = EmptySeqInfo(seq_ret.num_channels)
                   /\ note_seqs' = <<>>
    /\ UNCHANGED <<samples, VF_seq, sequences, found_zero, seq_ret,
                   cursorVars, noteVars, midiVars>>

\* a variant of note_loop_next with the two inner loops exchanged
note_loop_next_steps_inside(l, num_channels) ==
    IF l.step + 1 < STEPS THEN [l EXCEPT !.step = @ + 1]
    ELSE IF l.channel + 1 < num_channels THEN [l EXCEPT !.step = 0, !.channel = @ + 1]
    ELSE [l EXCEPT !.channel = 0, !.step = 0, !.i = @ + 1]

\* the counters after one note: channels inside steps inside sequences
note_loop_next(l, num_channels) ==
    IF l.channel + 1 < num_channels THEN [l EXCEPT !.channel = @ + 1]
    ELSE IF l.step + 1 < STEPS THEN [l EXCEPT !.channel = 0, !.step = @ + 1]
    ELSE [l EXCEPT !.channel = 0, !.step = 0, !.i = @ + 1]

\* one note: notes_file.read(6), NoteInfo, append to the channel's list;
\* after the last note of a sequence, sequences.append(seq_info)
NoteStep ==
    /\ pc = "noteloop"
    /\ nloop.i < nloop.num_seqs
    /\ LET r == read(notes_file, NOTE_BYTES)
           obj == NoteInfo(r.ret, samples)
           nxt == note_loop_next(nloop, seq_ret.num_channels)
           filled == [seq_info EXCEPT ![nloop.channel + 1] = Append(@, obj)]
       IN  /\ notes_file' = r.vf
           /\ IF IsRaised(obj)
              THEN /\ pc' = "raised"
                   /\ exc' = RaisedIn("get_note_info", obj)
                   /\ UNCHANGED <<nloop, seq_info, note_seqs>>
              ELSE /\ nloop' = nxt
                   /\ pc' = "noteloop"
                   /\ UNCHANGED exc
                   /\ IF nxt.i # nloop.i
                      THEN /\ note_seqs' = Append(note_seqs, filled)
                           /\ seq_info' = EmptySeqInfo(seq_ret.num_channels)
                      ELSE /\ seq_info' = filled
                           /\ UNCHANGED note_seqs
    /\ UNCHANGED <<VF, samples, VF_seq, sequences, found_zero, seq_ret,
                   cursorVars, noteVars, midiVars>>

\* return sequences (display_seq_info and, in process_mus_file, test_me only
\* print what was decoded)
NoteReturn ==
    /\ pc = "noteloop"
    /\ nloop.i >= nloop.num_seqs
    /\ pc' = "done"
    /\ UNCHANGED <<exc, VF, samples, VF_seq, sequences, found_zero, seq_ret, notes_file,
                   nloop, seq_info, note_seqs, cursorVars, noteVars, midiVars>>

-----------------------------------------------------------------------------
(* generate_midi_tracks.  Times and durations are kept in quarter steps, four *)
(* times the source's values (n_index/4, (d_iter+1)/4, 16 per sequence), so    *)
(* that they stay integers.  m_pc is "start", "order", "channel", "note",      *)
(* "done" or "raised".                                                         *)

PANNING == <<0, 127, 127, 0, 0, 127, 127, 0, 0, 127, 127, 0, 0, 127, 127, 0>>

\* d_iter before the inner loop has ever assigned it
Unbound == -1

\* "for d_iter, d_note in enumerate(channel[n_index+1:])": d_iter when the loop
\* is left, by break or at the end of the slice; d_iter as it was when the
\* slice is empty
RECURSIVE lookahead(_, _, _)
lookahead(rest, j, d_iter) ==
    IF j >= Len(rest) THEN d_iter
    ELSE IF rest[j + 1].retrigger \/ rest[j + 1].sample_used # None THEN j
    ELSE lookahead(rest, j + 1, j)

MidiStart ==
    /\ m_pc = "start"
    /\ IF Len(m_seq_info) = 0
       THEN m_pc' = "raised" /\ UNCHANGED m_events
       ELSE /\ m_pc' = "order"
            /\ m_events' = <<[op |-> "addTempo", track |-> 0, time4 |-> 0, tempo |-> 120]>>
                  \o [c \in 1..Len(m_seq_info[1]) |->
                         [op |-> "addTrackName", track |-> c - 1, time4 |-> 0]]
    /\ m_time' = 0
    /\ UNCHANGED <<m_seq_info, m_order, m_loop, m_d_iter, cursorVars, noteVars, pipeVars>>

\* "for cur_time, i in enumerate(order)": the next position, or the end, where
\* the file name needs c_num
MidiOrderNext ==
    /\ m_pc = "order"
    /\ IF m_loop.cur_time >= Len(m_order)
       THEN m_pc' = IF m_loop.c_bound THEN "done" ELSE "raised"
       ELSE m_pc' = IF m_order[m_loop.cur_time + 1] >= Len(m_seq_info)
                    THEN "raised" ELSE "channel"
    /\ UNCHANGED <<m_seq_info, m_order, m_loop, m_time, m_d_iter, m_events,
                   cursorVars, noteVars, pipeVars>>

\* "for c_num, channel in enumerate(seq_info[i])": the panning event of the
\* next channel, or "time += 16" after the last
MidiChannelNext ==
    /\ m_pc = "channel"
    /\ LET seq == m_seq_info[m_order[m_loop.cur_time + 1] + 1]
           c_num == m_loop.c_num
       IN  IF c_num >= Len(seq)
           THEN /\ m_time' = m_time + 64
                /\ m_loop' = [m_loop EXCEPT !.cur_time = @ + 1, !.c_num = 0, !.n_index = 0]
                /\ m_pc' = "order"
                /\ UNCHANGED m_events
           ELSE IF c_num >= Len(PANNING)
           THEN /\ m_pc' = "raised"
                /\ m_loop' = [m_loop EXCEPT !.c_bound = TRUE]
                /\ UNCHANGED <<m_time, m_events>>
           ELSE /\ m_events' = Append(m_events,
                       [op |-> "addControllerEvent", track |-> c_num, channel |-> c_num,
                        time4 |-> m_time, controller |-> 10, value |-> PANNING[c_num + 1]])
                /\ m_loop' = [m_loop EXCEPT !.n_index = 0, !.c_bound = TRUE]
                /\ m_pc' = "note"
                /\ UNCHANGED m_time
    /\ UNCHANGED <<m_seq_info, m_order, m_d_iter, cursorVars, noteVars, pipeVars>>

\* "for n_index, note in enumerate(channel)": one note
MidiNoteStep ==
    /\ m_pc = "note"
    /\ LET channel == m_seq_info[m_order[m_loop.cur_time + 1] + 1][m_loop.c_num + 1]
           c_num == m_loop.c_num
           n_index == m_loop.n_index
       IN  IF n_index >= Len(channel)
           THEN /\ m_loop' = [m_loop EXCEPT !.c_num = @ + 1]
                /\ m_pc' = "channel"
                /\ UNCHANGED <<m_time, m_d_iter, m_events>>
           ELSE
           LET note == channel[n_index + 1]
               d_iter == lookahead(Slice(channel, n_index + 1, Len(channel)), 0, m_d_iter)
           IN  IF note.note_played = <<"None">>
               THEN /\ m_events' =
                         IF note.third_byte[1] = 12
                         THEN Append(m_events,
                                  [op |-> "addControllerEvent", track |-> c_num,
                                   channel |-> c_num, time4 |-> m_time, controller |-> 7,
                                   value |-> note.volume])
                         ELSE m_events
                    /\ m_loop' = [m_loop EXCEPT !.n_index = @ + 1]
                    /\ UNCHANGED <<m_pc, m_time, m_d_iter>>
               ELSE IF d_iter = Unbound
               THEN /\ m_pc' = "raised"
                    /\ UNCHANGED <<m_loop, m_time, m_d_iter, m_events>>
               ELSE /\ m_d_iter' = d_iter
                    /\ m_time' = m_loop.cur_time * 64 + n_index
                    /\ m_events' = Append(m_events,
                           [op |-> "addNote", track |-> c_num, channel |-> c_num,
                            pitch |-> note.note_played_raw,
                            time4 |-> m_loop.cur_time * 64 + n_index,
                            duration4 |-> d_iter + 1, volume |-> note.volume])
                    /\ m_loop' = [m_loop EXCEPT !.n_index = @ + 1]
                    /\ UNCHANGED m_pc
    /\ UNCHANGED <<m_seq_info, m_order, cursorVars, noteVars, pipeVars>>

-----------------------------------------------------------------------------
(* Inputs of generate_midi_tracks: channels of 64 notes decoded by NoteInfo   *)

MaxOrderLen == 2     \* longest play order

MidiTable == TableWith(64, -1)

\* the record of a step, by kind
KindBytes(kind) ==
    CASE kind = "note"   -> <<1, 0, 96, 0, 0, 0>>     \* sample 1 and a pitch
      [] kind = "pitch"  -> <<0, 0, 104, 0, 0, 0>>    \* a pitch, no sample
      [] kind = "retrig" -> <<0, 0, 255, 1, 0, 0>>    \* retrigger, no pitch
      [] kind = "vol"    -> <<0, 0, 255, 0, 12, 64>>  \* set volume, no pitch
      [] OTHER           -> <<0, 0, 255, 0, 0, 0>>    \* nothing

MidiMarks == {0, 5, 63}
MidiKinds == {"rest", "note", "pitch", "retrig"}

\* a channel: the kinds f gives at the marked steps, nothing elsewhere
Chan(f) ==
    [t \in 1..STEPS |->
        NoteInfo(KindBytes(IF (t - 1) \in MidiMarks THEN f[t - 1] ELSE "rest"), MidiTable)]

VolChan ==
    [t \in 1..STEPS |-> NoteInfo(KindBytes(IF t = 3 THEN "vol" ELSE "rest"), MidiTable)]

MidiInputs ==
    {<< <<Chan(f)>> >> : f \in [MidiMarks -> MidiKinds]}
    \cup {<< <<Chan(f), VolChan>>, <<VolChan, Chan(f)>> >> :
             f \in {g \in [MidiMarks -> MidiKinds] : g[5] = "rest" /\ g[0] # "retrig"}}
    \cup {<<>>}

MidiInit ==
    /\ m_seq_info \in MidiInputs
    /\ m_order \in SeqsUpTo({0, 1}, MaxOrderLen)
    /\ m_pc = "start"
    /\ m_loop = [cur_time |-> 0, c_num |-> 0, n_index |-> 0, c_bound |-> FALSE]
    /\ m_time = 0
    /\ m_d_iter = Unbound
    /\ m_events = <<>>

MidiIdle ==
    /\ m_seq_info = <<>>
    /\ m_order = <<>>
    /\ m_pc = "idle"
    /\ m_loop = [cur_time |-> 0, c_num |-> 0, n_index |-> 0, c_bound |-> FALSE]
    /\ m_time = 0
    /\ m_d_iter = Unbound
    /\ m_events = <<>>

-----------------------------------------------------------------------------
(* Inputs of process_mus_file and of get_seq_data *)

MaxSeqs == 2         \* most sequences a note matrix is built for
MaxPrefix == 4       \* most words chosen freely at the head of a sequence region

SlotKinds == {"pcm", "empty", "other", "utf8", "bad"}

\* lengths of the note matrix: whole sequences of one or two channels, and one
\* byte more
NoteLens ==
    {s * (NOTE_BYTES * c * STEPS) + extra : s \in 0..MaxSeqs, c \in {1, 2}, extra \in {0, 1}}

\* heads of the sequence region: channel count, sequence count, play order
PipePrefixes == {<<1, 1, 0>>, <<2, 2, 0, 1>>, <<2, 0, 0, 5>>, <<0>>, <<0, 3>>, <<3, 1>>}

MusFile(k2, k31, prefix, filler, n, bad) ==
    Header(k2, k31) \o SeqRegion(prefix, filler) \o NoteMatrix(n, bad)

\* lengths short of a whole header and of a whole sequence region
CutLens == {HEADER_BYTES - 1, HEADER_BYTES + 6}

MusFiles ==
    {MusFile(k2, k31, <<2, 2, 0, 1>>, 0, NOTE_BYTES * 2 * STEPS, FALSE) :
        k2 \in SlotKinds, k31 \in {"pcm", "empty"}}
    \cup {MusFile("other", "pcm", prefix, filler, n, FALSE) :
             prefix \in PipePrefixes, filler \in {0, 263}, n \in NoteLens}
    \cup {MusFile("utf8", "empty", <<1, 1, 0>>, 0, NOTE_BYTES * STEPS, TRUE)}
    \cup {Slice(MusFile("pcm", "pcm", <<2, 0>>, 0, 0, FALSE), 0, n) : n \in CutLens}

PipeInit ==
    /\ pc = "samples"
    /\ VF \in {VirtualFile(f) : f \in MusFiles}
    /\ PipeLocalsInit

SeqWords == {0, 2, 5}
SeqFillers == {0, 263}

\* get_seq_data called on a cursor that stands at the head of the region
SeqRegions ==
    {SeqRegion(prefix, filler) : prefix \in SeqsUpTo(SeqWords, MaxPrefix), filler \in SeqFillers}
    \cup {Slice(SeqRegion(<<2, 0>>, 0), 0, n) : n \in {0, 6, SEQ_INFO_BYTES - 4}}

SeqInit ==
    /\ pc = "seq"
    /\ VF \in {VirtualFile(f) : f \in SeqRegions}
    /\ PipeLocalsInit

-----------------------------------------------------------------------------
(* Specifications *)

\* process_mus_file on a file
Init == PipeInit /\ CursorIdle /\ NoteIdle /\ MidiIdle
Next ==
    \/ GetSampleData
    \/ GetSeqStart
    \/ SeqLoopStep
    \/ SeqReturn
    \/ GetNoteInfoStart
    \/ NoteStep
    \/ NoteReturn
Spec == Init /\ [][Next]_vars

\* get_seq_data on a region; single-threaded code runs to its end
InitSeq == SeqInit /\ CursorIdle /\ NoteIdle /\ MidiIdle
NextSeq == GetSeqStart \/ SeqLoopStep \/ SeqReturn
SpecSeq == InitSeq /\ [][NextSeq]_vars /\ WF_vars(NextSeq)

\* calls on one VirtualFile
InitCursor == CursorInit /\ PipeIdle /\ NoteIdle /\ MidiIdle
NextCursor == CursorRead \/ CursorPeak
SpecCursor == InitCursor /\ [][NextCursor]_vars

\* NoteInfo on one record
InitNote == NoteInit /\ PipeIdle /\ CursorIdle /\ MidiIdle
NextNote == DecodeNote
SpecNote == InitNote /\ [][NextNote]_vars

\* generate_midi_tracks on decoded sequences
InitMidi == MidiInit /\ PipeIdle /\ CursorIdle /\ NoteIdle
NextMidi == MidiStart \/ MidiOrderNext \/ MidiChannelNext \/ MidiNoteStep
SpecMidi == InitMidi /\ [][NextMidi]_vars

-----------------------------------------------------------------------------
(* Properties of the byte cursor (SpecCursor) *)

\* C1: the position never goes back and never exceeds the buffer length, and a
\* read or peak of more bytes than remain fails rather than returning
C1_CursorBounded ==
    /\ cur.pos >= cur_op.before
    /\ cur.pos <= cur.size
    /\ (cur_op.op \in {"read", "peak"} /\ cur_op.num > cur.size - cur_op.before)
           => ~cur_op.returned

-----------------------------------------------------------------------------
(* Properties of get_seq_data (SpecSeq) *)

\* the little-endian 32-bit words of a region
Words(d) ==
    [k \in 1..(Len(d) \div 4) |->
        d[4 * k - 3] + 256 * d[4 * k - 2] + 65536 * d[4 * k - 1] + 16777216 * d[4 * k]]

ZerosBefore(w, k) == Cardinality({j \in 1..(k - 1) : w[j] = 0})
HasSecondZero(w) == \E k \in 1..Len(w) : w[k] = 0 /\ ZerosBefore(w, k) = 1
SecondZero(w) == CHOOSE k \in 1..Len(w) : w[k] = 0 /\ ZerosBefore(w, k) = 1
\* the values preceding the second zero
Preceding(w) == SubSeq(w, 1, SecondZero(w) - 1)

\* get_seq_data has read a whole 0x20C-byte region
FullRegion == pc \in {"seqloop", "seqend", "notes", "raised"} /\ Len(VF_seq.data) = SEQ_INFO_BYTES
SeqReturned == pc = "notes"
SeqRaised == pc = "raised" /\ IsRaised(exc) /\ exc.where = "get_seq_data"

\* what get_seq_data returns for the decoded list p
Returns(p) ==
    /\ seq_ret.tag = "SeqData"
    /\ seq_ret.num_channels = p[1]
    /\ seq_ret.num_sequences = p[2]
    /\ seq_ret.sequences = SubSeq(p, 3, Len(p))

\* C2 as stated: for every whole region with a second zero, the decoded list is
\* the values preceding the second zero, and its first, second and remaining
\* elements are returned as channel count, sequence count and play order
C2_EverySecondZeroRegionDecodes ==
    (FullRegion /\ HasSecondZero(Words(VF_seq.data)) /\ pc # "seqloop")
        => /\ sequences = Preceding(Words(VF_seq.data))
           /\ ~SeqRaised
           /\ SeqReturned => Returns(Preceding(Words(VF_seq.data)))

\* C2 amended: the same, for regions where at least two values precede the
\* second zero
C2_SecondZeroRegionDecodes ==
    (FullRegion /\ HasSecondZero(Words(VF_seq.data)) /\ pc # "seqloop")
        => /\ sequences = Preceding(Words(VF_seq.data))
           /\ Len(Preceding(Words(VF_seq.data))) >= 2
                 => /\ ~SeqRaised
                    /\ SeqReturned => Returns(Preceding(Words(VF_seq.data)))

\* the stream 2,0,0,5,0,0,... has been decoded to 2 channels, 0 sequences and
\* an empty play order
C2_Witness ==
    /\ FullRegion /\ SeqReturned
    /\ SubSeq(Words(VF_seq.data), 1, 6) = <<2, 0, 0, 5, 0, 0>>
    /\ seq_ret = [tag |-> "SeqData", num_channels |-> 2, sequences |-> <<>>,
                  num_sequences |-> 0]

\* C3: on a whole region without a second zero the loop ends, in an error, and
\* nothing is ever returned
C3_NoSecondZeroRaises ==
    /\ (pc = "seqloop" /\ FullRegion /\ ~HasSecondZero(Words(VF_seq.data))) ~> SeqRaised
    /\ []((FullRegion /\ ~HasSecondZero(Words(VF_seq.data)))
              => (seq_ret = Pending /\ pc \in {"seqloop", "raised"}))

\* a region without a second zero was read to its end and the next read raised
C3_Witness ==
    /\ FullRegion /\ ~HasSecondZero(Words(VF_seq.data))
    /\ SeqRaised /\ exc.kind = "struct.error"
    /\ VF_seq.pos = SEQ_INFO_BYTES + 4
    /\ Len(sequences) = SEQ_INFO_BYTES \div 4

-----------------------------------------------------------------------------
(* Properties of process_mus_file (Spec) *)

NOTES_OFFSET == 1908        \* 0x774

\* C4: a decode that returns a sequence list has a note matrix that is a whole
\* number of sections of 6 * channelCount * 64 bytes
C4_ReturnedImpliesWholeSections ==
    pc = "done"
        => (VF.size - HEADER_BYTES - SEQ_INFO_BYTES)
               % (NOTE_BYTES * seq_ret.num_channels * STEPS) = 0

\* the note decoded from the 6 bytes at a file offset
NoteAtOffset(off) == NoteInfo(SubSeq(VF.data, off + 1, off + NOTE_BYTES), samples)

\* C8: the event at step t of channel c of sequence s (all from 0) is decoded
\* from the 6 bytes at offset 0x774 + 6 * ((s*64 + t) * channelCount + c), and
\* every channel list of every sequence holds 64 events
C8_NoteMatrixLayout ==
    pc \in {"noteloop", "done"}
        => \A s \in 1..Len(note_seqs) :
               /\ Len(note_seqs[s]) = seq_ret.num_channels
               /\ \A c \in 1..seq_ret.num_channels :
                      /\ Len(note_seqs[s][c]) = STEPS
                      /\ \A t \in 1..STEPS :
                             note_seqs[s][c][t] =
                                 NoteAtOffset(NOTES_OFFSET + NOTE_BYTES *
                                     ((((s - 1) * STEPS) + (t - 1)) * seq_ret.num_channels
                                      + (c - 1)))

\* two sequences of two channels have been decoded after a sequence region
\* whose sentinel fell after four values, and neighbouring events differ
C8_Witness ==
    /\ pc = "done"
    /\ seq_ret.num_channels = 2
    /\ Len(sequences) = 4
    /\ Len(note_seqs) = 2
    /\ Len(note_seqs[2][2]) = STEPS
    /\ note_seqs[2][2][STEPS] = NoteAtOffset(VF.size - NOTE_BYTES)
    /\ note_seqs[1][1][1] # note_seqs[1][2][1]
    /\ note_seqs[1][1][1] # note_seqs[1][1][2]

\* the name field and the 32-bit fields of the record of slot i in the file
RecordOffset(i) == TITLE_SKIP + (i - 1) * SAMPLE_STRUCT_SIZE
NameOf(i) == SubSeq(VF.data, RecordOffset(i) + 1, RecordOffset(i) + NAME_BYTES)
WordAt(off) == Words(SubSeq(VF.data, off + 1, off + 4))[1]

\* C9: once get_sample_data has run on a file of at least 0x568 bytes, slot i
\* holds a sample exactly when the name of record i contains ".pcm", with slot
\* index i and that record's size, volume and loop fields, and the cursor
\* stands at 0x568 when it returns
C9_SampleTableBySlot ==
    (pc # "samples" /\ VF.size >= HEADER_BYTES)
        => /\ ~(IsRaised(exc) /\ exc.where = "get_sample_data")
           /\ Len(samples) = NUM_SAMPLES
           /\ pc = "seq" => VF.pos = HEADER_BYTES
           /\ \A i \in 1..NUM_SAMPLES :
                  /\ (samples[i] # None) <=> Contains(NameOf(i), PCM_MARK)
                  /\ samples[i] # None
                        => /\ samples[i].snume = i
                           /\ samples[i].ssize = WordAt(RecordOffset(i) + 24)
                           /\ samples[i].volume
                                 = calculate_volume(WordAt(RecordOffset(i) + 28))
                           /\ samples[i].sloops = WordAt(RecordOffset(i) + 32)
                           /\ samples[i].sloope = WordAt(RecordOffset(i) + 36)

-----------------------------------------------------------------------------
(* Properties of NoteInfo (SpecNote) *)

\* the volume curve as the claims state it
Curve(b) == IF b = 0 THEN 0 ELSE (b - 1) * 2

\* the sample index the record combines to
RefIndex(b) == b[1] + b[2] * 16
\* the record names a slot of the table that holds a sample
RefPresent(b, t) == RefIndex(b) \in 1..Len(t) /\ t[RefIndex(b)] # None

Decoded == note_obj # Pending /\ ~IsRaised(note_obj)

\* C5: the volume is curve(byte5) under effect code 12; else the base volume of
\* the referenced sample when the record carries a reference (byte0 + byte1*16
\* is not 0) or a retrigger; else 0
C5_VolumeRule ==
    Decoded
        => /\ note_bytes[5] = 12 => note_obj.volume = Curve(note_bytes[6])
           /\ (note_bytes[5] # 12 /\ (RefIndex(note_bytes) # 0 \/ note_bytes[4] = 1)
                  /\ RefPresent(note_bytes, note_samples))
                 => note_obj.volume = note_samples[RefIndex(note_bytes)].volume
           /\ (note_bytes[5] # 12 /\ RefIndex(note_bytes) = 0 /\ note_bytes[4] # 1)
                 => note_obj.volume = 0

\* C6: decoding never raises, and sample_used is empty or the descriptor held
\* by slot byte0 + byte1*16
C6_DecodeTotal ==
    note_obj # Pending
        => /\ ~IsRaised(note_obj)
           /\ \/ note_obj.sample_used = None
              \/ /\ RefPresent(note_bytes, note_samples)
                 /\ note_obj.sample_used = note_samples[RefIndex(note_bytes)]

\* C7: the volume of a decoded note is in 0..127
C7_VolumeInMidiRange ==
    Decoded => note_obj.volume \in 0..127

-----------------------------------------------------------------------------
(* Properties of generate_midi_tracks (SpecMidi) *)

\* the channel an addNote event belongs to, and its step
EventChannel(e) == m_seq_info[m_order[(e.time4 \div STEPS) + 1] + 1][e.track + 1]
EventStep(e) == e.time4 % STEPS

\* the first step after n that retriggers or carries a sample, or 64
NextStop(channel, n) ==
    LET stops == {j \in (n + 1)..(STEPS - 1) :
                     channel[j + 1].retrigger \/ channel[j + 1].sample_used # None}
    IN  IF stops = {} THEN STEPS ELSE CHOOSE j \in stops : \A k \in stops : j <= k

\* C10: every note-on emitted at step n lasts until the next step of its channel
\* that retriggers or carries a sample, or until step 64, and no further
C10_DurationToNextStop ==
    \A x \in 1..Len(m_events) :
        m_events[x].op = "addNote"
            => /\ m_events[x].duration4
                     = NextStop(EventChannel(m_events[x]), EventStep(m_events[x]))
                       - EventStep(m_events[x])
               /\ EventStep(m_events[x]) + m_events[x].duration4 <= STEPS

=============================================================================
